---- MODULE Spec2Model ----
(***************************************************************************)
(* State-machine model of streamlit_app.py (INFLXD transcription client).  *)
(*                                                                         *)
(* One action is one user interaction together with the script run(s) it   *)
(* triggers: Streamlit re-executes the whole script top to bottom on every *)
(* interaction, so a run is modelled as the composition                    *)
(*   DownloadTab(StatusTab(UploadTab(Gate(Sidebar(s)))))                   *)
(* over a record s holding st.session_state, the widget values that        *)
(* persist between runs and what the run has emitted so far.               *)
(*                                                                         *)
(* Job records are Python dicts and the two history lists hold references  *)
(* to them, so the model keeps a heap: job_history and the buckets of      *)
(* global_history are sequences of references (heap indices).              *)
(***************************************************************************)
EXTENDS Integers, Sequences, FiniteSets, TLC

(***************************************************************************)
(* Program constants                                                       *)
(***************************************************************************)
SESSION_CAP ==
    20

ARCHIVE_CAP ==
    100

(***************************************************************************)
(* Bounds of the exploration                                               *)
(***************************************************************************)
\* jobs recorded in a behaviour of Spec, of SpecFlows and of SpecBulk
MaxJobs ==
    2

MaxFlowJobs ==
    1

MaxBulkJobs ==
    102

\* in SpecBulk only the first jobs vary in id and owner
MaxBulkVaried ==
    1

(***************************************************************************)
(* Python values                                                           *)
(***************************************************************************)
None ==
    "None"

\* truth value of a Python str-or-None: None and "" are falsy, " " is truthy
Truthy(v) ==
    v # None /\ v # ""

\* Python slice seq[:n]
Take(seq, n) ==
    SubSeq(seq, 1, IF Len(seq) < n THEN Len(seq) ELSE n)

\* the absent response: make_api_request returned None
NoResponse ==
    [none |-> TRUE]

\* truth value of what make_api_request returned: None is falsy, and
\* requests.Response.__bool__ is Response.ok, which is false exactly for the
\* 4xx and 5xx codes
ResponseTruthy(response) ==
    response # NoResponse /\ ~(400 <= response.status_code /\ response.status_code < 600)

(***************************************************************************)
(* Inputs                                                                  *)
(***************************************************************************)
Tokens ==
    {"tokA", "tokB", "tokC"}

\* hashlib.md5(token).hexdigest()[:16]: a fixed function of the token whose
\* value is a non-empty string; 64 bits, so distinct tokens can collide
\* (tokA and tokC stand for such a pair)
get_user_hash(token) ==
    CASE token = "tokA" -> "h1"
      [] token = "tokB" -> "h2"
      [] token = "tokC" -> "h1"
      [] OTHER -> "h3"

JobIds ==
    {"j1", "j2"}

JobIdInputs ==
    JobIds \cup {""}

CheckStatuses ==
    {"processing", "PROCESSING", "completed"}

StatusCodes ==
    {200, 201, 204, 404, 500}

\* job descriptors in a POST /workflow response body
JobDescriptors ==
    [id : JobIds, title : {"Q4 Call"}, company : {"Acme"}, status : {"processing"}]

\* job descriptors in a GET /workflow/{id} response body
StatusDescriptors ==
    [id : {"j1"}, title : {"Q4 Call"}, company : {"Acme"}, status : CheckStatuses]

\* a completed HTTP exchange; json_ok = FALSE is a body that response.json()
\* or the key lookups on it reject
Response(code, ok, json) ==
    [status_code |-> code, json_ok |-> ok, json |-> json, text |-> "<body>"]

AnyDescriptor ==
    [id |-> "j1", title |-> "Q4 Call", company |-> "Acme", status |-> "processing"]

SubmitResponses ==
    {NoResponse}
        \cup {Response(c, TRUE, AnyDescriptor) : c \in {200, 201, 204}}
        \cup {Response(c, FALSE, AnyDescriptor) : c \in {200, 404, 500}}

CheckResponses ==
    {NoResponse}
        \cup {Response(200, TRUE, d) : d \in StatusDescriptors}
        \cup {Response(201, TRUE, [AnyDescriptor EXCEPT !.status = "completed"])}
        \cup {Response(c, FALSE, AnyDescriptor) : c \in {200, 404, 500}}

ExportResponses ==
    {NoResponse} \cup {Response(c, FALSE, AnyDescriptor) : c \in StatusCodes}

Formats ==
    {"json", "pdf", "docx", "txt", "html", "srt", "vtt"}

\* the five checkboxes of the export tab, in the order the script reads them
ToggleNames ==
    <<"remove_timestamps", "remove_word_timestamps", "remove_speaker_labels",
      "remove_insights", "remove_keywords">>

Toggles ==
    [{ToggleNames[i] : i \in 1..5} -> BOOLEAN]

\* the checkboxes' default values (value=... at lines 448-452)
DefaultToggles ==
    [n \in {ToggleNames[i] : i \in 1..5} |-> n = "remove_word_timestamps"]

(***************************************************************************)
(* State                                                                   *)
(***************************************************************************)
VARIABLES
    api_token,          \* st.session_state.api_token
    current_user_hash,  \* st.session_state.current_user_hash
    job_history,        \* st.session_state.job_history: sequence of references
    global_history,     \* st.session_state.global_history: hash -> sequence of references
    heap,               \* the job_entry dicts, by reference
    clock,              \* datetime.now() at the next save
    job_id,             \* value of the "Enter Job ID" field of the status tab
    auto_refresh,       \* value of the "Auto-refresh" checkbox
    rerun_pending,      \* the last run ended in time.sleep(5); st.rerun()
    requests,           \* requests issued by the last interaction
    messages,           \* st.error / st.warning / st.success of the last run
    last_click,         \* what the last interaction was
    responses,          \* what the network answered to each of them
    last_input,         \* the field values read by the handler the last click ran
    recorded_by         \* history: the token each job_entry was recorded under

vars ==
    <<api_token, current_user_hash, job_history, global_history, heap, clock,
      job_id, auto_refresh, rerun_pending, requests, responses, messages,
      last_click, last_input, recorded_by>>

(***************************************************************************)
(* Job history manager                                                     *)
(***************************************************************************)
\* the session list filled with append instead of insert(0, ...)
SessionInsert_at_end(history, ref) ==
    Take(Append(history, ref), SESSION_CAP)

\* job_history.insert(0, job_entry); job_history = job_history[:20]
SessionInsert(history, ref) ==
    Take(<<ref>> \o history, SESSION_CAP)

\* the "persistent history" half of save_job_to_history: create the bucket
\* if the key is missing, insert at the front, keep the first 100
ArchiveInsert(archive, user_hash, ref) ==
    IF Truthy(user_hash)
    THEN LET bucket == IF user_hash \in DOMAIN archive THEN archive[user_hash] ELSE <<>>
         IN  [h \in DOMAIN archive \cup {user_hash} |->
                 IF h = user_hash THEN Take(<<ref>> \o bucket, ARCHIVE_CAP) ELSE archive[h]]
    ELSE archive

\* the dict built from the response body; submitted_at is the wall clock
JobEntry(job_data, now) ==
    [id |-> job_data.id, title |-> job_data.title, company |-> job_data.company,
     submitted_at |-> now, status |-> job_data.status]

\* one job_entry dict is allocated and the same reference goes into both lists
save_job_to_history(s, job_data) ==
    LET ref == Len(s.heap) + 1
    IN  [s EXCEPT !.heap = Append(s.heap, JobEntry(job_data, s.clock)),
                  !.clock = s.clock + 1,
                  !.recorded_by = Append(s.recorded_by, s.api_token),
                  !.job_history = SessionInsert(s.job_history, ref),
                  !.global_history = ArchiveInsert(s.global_history, s.current_user_hash, ref)]

\* a login that forgets to load the bucket
load_user_history_skipped(s) ==
    s

\* list.copy() is shallow: a new list holding the same references; when the
\* user has no bucket job_history is left as it is
load_user_history(s) ==
    IF Truthy(s.current_user_hash) /\ s.current_user_hash \in DOMAIN s.global_history
    THEN [s EXCEPT !.job_history = s.global_history[s.current_user_hash]]
    ELSE s

\* index of the first reference in refs whose dict has this id, 0 if none
FirstMatch(hp, refs, id) ==
    IF \E i \in 1..Len(refs) : hp[refs[i]].id = id
    THEN CHOOSE i \in 1..Len(refs) :
            /\ hp[refs[i]].id = id
            /\ \A k \in 1..(i - 1) : hp[refs[k]].id # id
    ELSE 0

\* the loop without its break: every matching dict is updated
UpdateFirstMatch_no_break(hp, refs, id, status) ==
    [r \in DOMAIN hp |->
        IF hp[r].id = id /\ \E i \in 1..Len(refs) : refs[i] = r
        THEN [hp[r] EXCEPT !.status = status] ELSE hp[r]]

\* for job in refs: if job['id'] == id: job['status'] = status; break
UpdateFirstMatch(hp, refs, id, status) ==
    LET i == FirstMatch(hp, refs, id)
    IN  IF i = 0 THEN hp ELSE [hp EXCEPT ![refs[i]].status = status]

\* the two loops of the status tab, the second over the current user's bucket
update_status(s, id, status) ==
    LET hp1 == UpdateFirstMatch(s.heap, s.job_history, id, status)
        hp2 == IF Truthy(s.current_user_hash) /\ s.current_user_hash \in DOMAIN s.global_history
               THEN UpdateFirstMatch(hp1, s.global_history[s.current_user_hash], id, status)
               ELSE hp1
    IN  [s EXCEPT !.heap = hp2]

(***************************************************************************)
(* What a run emits                                                        *)
(***************************************************************************)
\* a message and the container (sidebar, page, tab) it is drawn in
Msg(where, kind, code, text) ==
    [where |-> where, kind |-> kind, code |-> code, text |-> text]

Say(s, where, kind) ==
    [s EXCEPT !.messages = Append(s.messages, Msg(where, kind, 0, ""))]

\* st.error(f"Error {response.status_code}: {response.text}")
SayApiError(s, where, response) ==
    [s EXCEPT !.messages =
        Append(s.messages, Msg(where, "api_error", response.status_code, response.text))]

\* the run ends here: st.rerun(), st.stop() or an uncaught exception
End(s, how) ==
    [s EXCEPT !.ctl = how]

\* make_api_request: the request goes out with the caller's headers; a
\* transport exception is reported with st.error and None is returned
make_api_request(s, where, method, endpoint, response) ==
    LET req == [method |-> method, endpoint |-> endpoint,
                authorization |-> "Bearer " \o s.api_token]
        s1  == [s EXCEPT !.requests = Append(s.requests, req),
                         !.responses = Append(s.responses, response)]
    IN  IF response = NoResponse THEN Say(s1, where, "api_request_error") ELSE s1

(***************************************************************************)
(* The script, top to bottom                                               *)
(***************************************************************************)
\* the Authenticate handler: an empty field is refused, anything else
\* becomes the token; ends in st.rerun()
AuthenticateHandler(s, api_key_input) ==
    IF Truthy(api_key_input)
    THEN End(Say(load_user_history(
                     [s EXCEPT !.api_token = api_key_input,
                               !.current_user_hash = get_user_hash(api_key_input)]),
                 "sidebar", "authenticated"), "rerun")
    ELSE Say(s, "sidebar", "invalid_token")

\* a logout that forgets to empty job_history
LogoutHandler_keeps_jobs(s) ==
    End([s EXCEPT !.api_token = None,
                  !.current_user_hash = None], "rerun")

\* the Logout handler; ends in st.rerun()
LogoutHandler(s) ==
    End([s EXCEPT !.api_token = None,
                  !.current_user_hash = None,
                  !.job_history = <<>>], "rerun")

\* sidebar: the Authenticate button exists while api_token is None, the
\* Logout button otherwise
Sidebar(s, click, api_key_input) ==
    IF s.api_token = None
    THEN IF click = "authenticate" THEN AuthenticateHandler(s, api_key_input) ELSE s
    ELSE IF click = "logout" THEN LogoutHandler(s) ELSE s

\* a script without the gate: the tabs are built for everyone
Gate_skipped(s) ==
    s

\* the authentication gate: st.stop() ends the run before any tab is built.
\* The widgets of the tabs are then not rendered in this run and Streamlit
\* drops their values, so they are back at their defaults afterwards.
Gate(s) ==
    IF s.ctl # "running" THEN s
    ELSE IF s.api_token = None
         THEN End([Say(s, "page", "please_authenticate") EXCEPT !.job_id = "", !.auto_refresh = FALSE],
                  "stopped")
         ELSE s

\* if response and response.status_code in (200, 201)
SubmitSucceeded(response) ==
    ResponseTruthy(response) /\ response.status_code \in {200, 201}

\* the test of the submit flow pasted into the status flow
CheckSucceeded_as_submit(response) ==
    ResponseTruthy(response) /\ response.status_code \in {200, 201}

\* if response and response.status_code == 200
CheckSucceeded(response) ==
    ResponseTruthy(response) /\ response.status_code = 200

\* if response and response.status_code == 200 (export)
ExportSucceeded(response) ==
    ResponseTruthy(response) /\ response.status_code = 200

\* the comparison made on status.lower(), as format_status does
StillProcessing_any_case(status) ==
    status \in {"processing", "PROCESSING"}

\* status_data['status'] == 'processing'
StillProcessing(status) ==
    status = "processing"

\* tab 1: validation, POST /workflow, save_job_to_history
UploadTab(s, click, form, response) ==
    IF s.ctl # "running" \/ click # "submit" THEN s
    ELSE IF ~Truthy(form.uploaded_file) THEN Say(s, "tab1", "select_file")
    ELSE IF ~Truthy(form.title) THEN Say(s, "tab1", "enter_title")
    ELSE IF ~Truthy(form.company) THEN Say(s, "tab1", "enter_company")
    ELSE LET s1 == make_api_request(s, "tab1", "POST", "/workflow", response)
         IN  IF SubmitSucceeded(response)
             THEN IF response.json_ok
                  THEN Say(save_job_to_history(s1, response.json), "tab1", "submitted")
                  ELSE End(s1, "raised")
             ELSE IF ResponseTruthy(response)
                  THEN SayApiError(s1, "tab1", response)
                  ELSE Say(s1, "tab1", "failed_to_connect")

\* tab 2: GET /workflow/{job_id}, the two update loops, auto-refresh
StatusTab(s, click, response) ==
    IF s.ctl # "running" \/ ~(click = "check" \/ s.auto_refresh) THEN s
    ELSE IF ~Truthy(s.job_id) THEN Say(s, "tab2", "enter_job_id")
    ELSE LET s1 == make_api_request(s, "tab2", "GET", "/workflow/" \o s.job_id, response)
         IN  IF CheckSucceeded(response)
             THEN IF response.json_ok
                  THEN LET s2 == Say(update_status(s1, s.job_id, response.json.status),
                                     "tab2", "status_shown")
                       IN  IF s.auto_refresh /\ StillProcessing(response.json.status)
                           THEN End(s2, "sleep_rerun")
                           ELSE s2
                  ELSE End(s1, "raised")
             ELSE IF ResponseTruthy(response)
                  THEN SayApiError(s1, "tab2", response)
                  ELSE Say(s1, "tab2", "failed_to_connect")

\* params.append(...) for each checked box, in the order of the script
ExportParams(toggles) ==
    (IF toggles["remove_timestamps"] THEN <<"remove_timestamps=1">> ELSE <<>>)
    \o (IF toggles["remove_word_timestamps"] THEN <<"remove_word_level_timestamps=1">> ELSE <<>>)
    \o (IF toggles["remove_speaker_labels"] THEN <<"remove_speaker_labels=1">> ELSE <<>>)
    \o (IF toggles["remove_insights"] THEN <<"remove_insights=1">> ELSE <<>>)
    \o (IF toggles["remove_keywords"] THEN <<"remove_keywords=1">> ELSE <<>>)

RECURSIVE Join(_, _)
\* sep.join(parts)
Join(parts, sep) ==
    IF parts = <<>> THEN ""
    ELSE IF Len(parts) = 1 THEN parts[1]
    ELSE parts[1] \o sep \o Join(Tail(parts), sep)

\* the "?" written whether or not there are parameters
QueryString_always_prefixed(toggles) ==
    "?" \o Join(ExportParams(toggles), "&")

\* query_string = "?" + "&".join(params) if params else ""
QueryString(toggles) ==
    LET params == ExportParams(toggles)
    IN  IF params # <<>> THEN "?" \o Join(params, "&") ELSE ""

ExportEndpoint(download_job_id, format_type, toggles) ==
    "/transcript/export/" \o download_job_id \o "/" \o format_type \o QueryString(toggles)

\* tab 3: GET /transcript/export/{id}/{format}{query_string}
DownloadTab(s, click, export, response) ==
    IF s.ctl # "running" \/ click # "download" THEN s
    ELSE IF ~Truthy(export.download_job_id) THEN Say(s, "tab3", "enter_job_id")
    ELSE LET s1 == make_api_request(s, "tab3", "GET",
                       ExportEndpoint(export.download_job_id, export.format_type, export.toggles),
                       response)
         IN  IF ExportSucceeded(response)
             THEN Say(s1, "tab3", "transcript_ready")
             ELSE IF ResponseTruthy(response)
                  THEN IF response.status_code = 404
                       THEN Say(s1, "tab3", "transcript_not_found")
                       ELSE SayApiError(s1, "tab3", response)
                  ELSE Say(s1, "tab3", "failed_to_connect")

\* one execution of the script: each part runs on the session the part
\* before it left (x \in {e} binds the value of e)
Script(s, click, in) ==
    CHOOSE s5 \in
        {DownloadTab(s4, click, in.export, in.export_response) : s4 \in
            {StatusTab(s3, click, in.check_response) : s3 \in
                {UploadTab(s2, click, in.form, in.submit_response) : s2 \in
                    {Gate(s1) : s1 \in
                        {Sidebar(s0, click, in.api_key_input) : s0 \in {s}}}}}} : TRUE

\* one interaction: the run it triggers and, when that run ends in an
\* immediate st.rerun(), the run that follows with no button pressed and
\* the page drawn afresh
Interaction(s, click, in) ==
    CHOOSE r2 \in
        {IF r1.ctl = "rerun"
         THEN Script([r1 EXCEPT !.ctl = "running", !.messages = <<>>], "none", in)
         ELSE r1 : r1 \in {Script(s, click, in)}} : TRUE

(***************************************************************************)
(* Interactions                                                            *)
(***************************************************************************)
NoForm ==
    [uploaded_file |-> None, title |-> "", company |-> ""]

GoodForm ==
    [uploaded_file |-> "a.mp3", title |-> "Q4 Call", company |-> "Acme"]

Forms ==
    {GoodForm,
     [GoodForm EXCEPT !.uploaded_file = None],
     [GoodForm EXCEPT !.title = ""],
     [GoodForm EXCEPT !.company = ""]}

NoExport ==
    [download_job_id |-> "", format_type |-> "json", toggles |-> DefaultToggles]

Exports ==
    [download_job_id : {"", "j1"}, format_type : {"json", "pdf"}, toggles : {DefaultToggles}]

AllExports ==
    [download_job_id : {"j1"}, format_type : Formats, toggles : Toggles]

NoInput ==
    [api_key_input |-> "", form |-> NoForm, submit_response |-> NoResponse,
     check_response |-> NoResponse, export |-> NoExport, export_response |-> NoResponse]

\* st.session_state and the widget values, as the script finds them
Session ==
    [api_token |-> api_token, current_user_hash |-> current_user_hash,
     job_history |-> job_history, global_history |-> global_history,
     heap |-> heap, clock |-> clock, recorded_by |-> recorded_by,
     job_id |-> job_id, auto_refresh |-> auto_refresh,
     requests |-> <<>>, responses |-> <<>>, messages |-> <<>>, ctl |-> "running"]

\* the interaction `click` with inputs `in`, on the session s
Step(s, click, in) ==
    \E r \in {Interaction(s, click, in)} :
        /\ api_token' = r.api_token
        /\ current_user_hash' = r.current_user_hash
        /\ job_history' = r.job_history
        /\ global_history' = r.global_history
        /\ heap' = r.heap
        /\ clock' = r.clock
        /\ recorded_by' = r.recorded_by
        /\ job_id' = r.job_id
        /\ auto_refresh' = r.auto_refresh
        /\ rerun_pending' = (r.ctl = "sleep_rerun")
        /\ requests' = r.requests
        /\ responses' = r.responses
        /\ messages' = r.messages
        /\ last_click' = click
        /\ last_input' = [api_key_input |-> in.api_key_input, form |-> in.form,
                          export |-> in.export]

\* a check response is consumed only by a run that reaches the request of tab 2
CheckInputs(s, click, set) ==
    IF (click = "check" \/ s.auto_refresh) /\ Truthy(s.job_id) THEN set ELSE {NoResponse}

\* a submit response is consumed only when the form passes validation
SubmitInputs(form, set) ==
    IF Truthy(form.uploaded_file) /\ Truthy(form.title) /\ Truthy(form.company)
    THEN set ELSE {NoResponse}

\* an export response is consumed only when the job id field is filled
ExportInputs(export, set) ==
    IF Truthy(export.download_job_id) THEN set ELSE {NoResponse}

\* a 200/201 answer with a usable body is what makes the submit flow save a job
Saves(response) ==
    ResponseTruthy(response) /\ response.status_code \in {200, 201} /\ response.json_ok

Init ==
    /\ api_token = None
    /\ current_user_hash = None
    /\ job_history = <<>>
    /\ global_history = [h \in {} |-> <<>>]
    /\ heap = <<>>
    /\ clock = 1
    /\ recorded_by = <<>>
    /\ job_id = ""
    /\ auto_refresh = FALSE
    /\ rerun_pending = FALSE
    /\ requests = <<>>
    /\ responses = <<>>
    /\ messages = <<>>
    /\ last_click = "none"
    /\ last_input = [api_key_input |-> "", form |-> NoForm, export |-> NoExport]

\* click on Authenticate with `token` typed into the field
Authenticate(tokens) ==
    /\ api_token = None
    /\ \E token \in tokens :
          Step(Session, "authenticate", [NoInput EXCEPT !.api_key_input = token])

\* click on Logout
Logout ==
    /\ api_token # None
    /\ Step(Session, "logout", NoInput)

\* click on Submit Transcription Job
Submit(forms, submit_responses, check_responses, max_jobs) ==
    /\ api_token # None
    /\ \E form \in forms :
          \E sr \in SubmitInputs(form, submit_responses) :
             /\ Saves(sr) => Len(heap) < max_jobs
             /\ \E cr \in CheckInputs(Session, "submit", check_responses) :
                   Step(Session, "submit",
                        [NoInput EXCEPT !.form = form, !.submit_response = sr,
                                        !.check_response = cr])

\* click on Check Status
CheckStatus(check_responses) ==
    /\ api_token # None
    /\ \E cr \in CheckInputs(Session, "check", check_responses) :
          Step(Session, "check", [NoInput EXCEPT !.check_response = cr])

\* click on Download Transcript
Download(exports, export_responses, check_responses) ==
    /\ api_token # None
    /\ \E export \in exports :
          \E er \in ExportInputs(export, export_responses) :
             \E cr \in CheckInputs(Session, "download", check_responses) :
                Step(Session, "download",
                     [NoInput EXCEPT !.export = export, !.export_response = er,
                                     !.check_response = cr])

\* typing into the job id field of tab 2 reruns the script with no button pressed
EditJobId(ids, check_responses) ==
    /\ api_token # None
    /\ \E v \in ids :
          /\ v # job_id
          /\ \E cr \in CheckInputs([Session EXCEPT !.job_id = v], "edit_job_id", check_responses) :
                Step([Session EXCEPT !.job_id = v], "edit_job_id",
                     [NoInput EXCEPT !.check_response = cr])

\* ticking or unticking the checkbox reruns the script with no button pressed
ToggleAutoRefresh(check_responses) ==
    /\ api_token # None
    /\ \E cr \in CheckInputs([Session EXCEPT !.auto_refresh = ~auto_refresh],
                             "toggle_auto_refresh", check_responses) :
          Step([Session EXCEPT !.auto_refresh = ~auto_refresh], "toggle_auto_refresh",
               [NoInput EXCEPT !.check_response = cr])

\* the run that st.rerun() starts after time.sleep(5): no button pressed,
\* the widgets as they are
AutoRefreshRerun(check_responses) ==
    /\ rerun_pending
    /\ \E cr \in CheckInputs(Session, "rerun", check_responses) :
          Step(Session, "rerun", [NoInput EXCEPT !.check_response = cr])

(***************************************************************************)
(* Spec: sessions and history.  Up to MaxJobs jobs, three users of whom    *)
(* two share a bucket, two job ids; the status tab is used by hand.        *)
(***************************************************************************)
HistorySubmitResponses ==
    {NoResponse, Response(404, FALSE, AnyDescriptor)}
        \cup {Response(200, TRUE, d) : d \in JobDescriptors}

HistoryCheckResponses ==
    {NoResponse, Response(404, FALSE, AnyDescriptor)}
        \cup {Response(200, TRUE, d) : d \in StatusDescriptors}

Next ==
    \/ Authenticate(Tokens)
    \/ Logout
    \/ Submit({GoodForm}, HistorySubmitResponses, HistoryCheckResponses, MaxJobs)
    \/ CheckStatus(HistoryCheckResponses)
    \/ EditJobId(JobIdInputs, HistoryCheckResponses)

Spec ==
    Init /\ [][Next]_vars

(***************************************************************************)
(* SpecFlows: the three request flows.  One user, up to MaxFlowJobs jobs,  *)
(* every kind of answer from the network, auto-refresh on and off.         *)
(***************************************************************************)
FlowTokens ==
    {"", " ", "tokA"}

NextFlows ==
    \/ Authenticate(FlowTokens)
    \/ Logout
    \/ Submit(Forms, SubmitResponses, CheckResponses, MaxFlowJobs)
    \/ CheckStatus(CheckResponses)
    \/ Download(Exports, ExportResponses, CheckResponses)
    \/ EditJobId({"", "j1"}, CheckResponses)
    \/ ToggleAutoRefresh(CheckResponses)
    \/ AutoRefreshRerun(CheckResponses)

SpecFlows ==
    Init /\ [][NextFlows]_vars

(***************************************************************************)
(* SpecExport: the export request for every format and every combination   *)
(* of the five checkboxes.                                                 *)
(***************************************************************************)
NextExport ==
    \/ Authenticate({"tokA"})
    \/ Download(AllExports, {Response(200, TRUE, AnyDescriptor)}, {NoResponse})

SpecExport ==
    Init /\ [][NextExport]_vars

(***************************************************************************)
(* SpecBulk: long histories.  Two users with separate buckets; up to       *)
(* MaxBulkJobs jobs, of which the first MaxBulkVaried vary in id and       *)
(* owner and the rest are tokA's jobs with id "j1"; status checks ask for  *)
(* "j2" and answer "completed".                                            *)
(***************************************************************************)
BulkTokens ==
    {"tokA", "tokB"}

BulkSubmitResponses ==
    IF Len(heap) < MaxBulkVaried
    THEN {Response(200, TRUE, d) : d \in JobDescriptors}
    ELSE IF api_token = "tokA" THEN {Response(200, TRUE, AnyDescriptor)} ELSE {}

BulkCheckResponses ==
    {Response(200, TRUE, [AnyDescriptor EXCEPT !.status = "completed"])}

NextBulk ==
    \/ Authenticate(BulkTokens)
    \/ Logout
    \/ Submit({GoodForm}, BulkSubmitResponses, BulkCheckResponses, MaxBulkJobs)
    \/ CheckStatus(BulkCheckResponses)
    \/ EditJobId({"", "j2"}, BulkCheckResponses)

SpecBulk ==
    Init /\ [][NextBulk]_vars

(***************************************************************************)
(* Claims                                                                  *)
(***************************************************************************)
\* the current user's archive bucket, empty when there is none
Bucket ==
    IF current_user_hash \in DOMAIN global_history
    THEN global_history[current_user_hash] ELSE <<>>

RECURSIVE NewestFirst(_, _)
\* the references of the set refs that are at most n, newest (largest) first
NewestFirst(n, refs) ==
    IF n = 0 THEN <<>>
    ELSE (IF n \in refs THEN <<n>> ELSE <<>>) \o NewestFirst(n - 1, refs)

\* every job ever recorded under a token, newest first
RecordedUnder(token) ==
    NewestFirst(Len(recorded_by), {r \in 1..Len(recorded_by) : recorded_by[r] = token})

\* every job ever recorded under a token with this hash, newest first
RecordedUnderHash(user_hash) ==
    NewestFirst(Len(recorded_by),
                {r \in 1..Len(recorded_by) : get_user_hash(recorded_by[r]) = user_hash})

\* C1: in every reachable state active_jobs (job_history) holds at most 20
\* records and every archive bucket holds at most 100 records.
C1_HistoryCaps ==
    /\ Len(job_history) <= 20
    /\ \A h \in DOMAIN global_history : Len(global_history[h]) <= 100

\* the step is a click on Logout
LogoutStep ==
    last_click' = "logout"

\* the step is a click on Authenticate that was accepted
AuthenticatedStep ==
    last_click' = "authenticate" /\ api_token' # None

\* logout clears auth_token, user_id and active_jobs and leaves the archive
\* and its records as they are
LogoutClears ==
    LogoutStep =>
        /\ api_token' = None
        /\ current_user_hash' = None
        /\ job_history' = <<>>
        /\ global_history' = global_history
        /\ heap' = heap

\* C2 as claimed: logout clears auth_token, user_id and active_jobs and
\* leaves every archive bucket unchanged; a later authenticate with the same
\* token puts back into active_jobs the jobs that were recorded under that
\* token, newest first and with the statuses they last had.
C2_LogoutThenRestoreAll ==
    [][/\ LogoutClears
       /\ AuthenticatedStep =>
             /\ job_history' = RecordedUnder(api_token')
             /\ heap' = heap]_vars

\* C2 as amended: logout as claimed; a later authenticate puts back the
\* content of the token's archive bucket, that is the 100 most recent jobs
\* recorded under a token with the same hash, newest first and with the
\* statuses they last had.
C2_LogoutThenRestoreBucket ==
    [][/\ LogoutClears
       /\ AuthenticatedStep =>
             /\ job_history' = Take(RecordedUnderHash(get_user_hash(api_token')), 100)
             /\ heap' = heap]_vars

\* a user has logged in again after recording more jobs than a bucket keeps
C2_Witness ==
    /\ last_click = "authenticate"
    /\ api_token = "tokA"
    /\ Len(RecordedUnder("tokA")) > 100
    /\ Len(job_history) = 100
    /\ job_history[1] = Len(heap)

\* the tab whose flow issued a request, given the job id of the status tab
FlowOf(request, status_job_id) ==
    IF request.method = "POST" THEN "tab1"
    ELSE IF request.endpoint = "/workflow/" \o status_job_id THEN "tab2"
    ELSE "tab3"

\* the success codes of the three flows, as the claims list them
SuccessCode(tab, code) ==
    IF tab = "tab1" THEN code \in {200, 201} ELSE code = 200

Reported(tab, kind) ==
    \E k \in 1..Len(messages) : messages[k].where = tab /\ messages[k].kind = kind

\* C3: every exchange that completes with a status code other than the
\* flow's success code is reported as an API error carrying the code and the
\* raw body (export with 404: the "transcript not found" message), never as
\* the transport failure "Failed to connect to the API", which is reported
\* only when make_api_request returned no response.
C3_ErrorResponsesReported ==
    \A i \in 1..Len(requests) :
        LET tab == FlowOf(requests[i], job_id)
            response == responses[i]
        IN  /\ (response # NoResponse /\ ~SuccessCode(tab, response.status_code)) =>
                  /\ IF tab = "tab3" /\ response.status_code = 404
                     THEN Reported(tab, "transcript_not_found")
                     ELSE \E k \in 1..Len(messages) :
                             messages[k] = Msg(tab, "api_error", response.status_code,
                                               response.text)
                  /\ ~Reported(tab, "failed_to_connect")
            /\ Reported(tab, "failed_to_connect") => response = NoResponse

\* the step records a job: a reference is added to a list or a dict is allocated
HistoryGrows ==
    \/ job_history' # job_history
    \/ global_history' # global_history
    \/ Len(heap') # Len(heap)

\* the step changes a field of an existing job_entry
RecordChanges ==
    \E r \in 1..Len(heap) : r <= Len(heap') /\ heap'[r] # heap[r]

\* the step got a 200/201 answer carrying a job descriptor to its POST
SubmitAnswered ==
    \E i \in 1..Len(requests') :
        /\ FlowOf(requests'[i], job_id') = "tab1"
        /\ responses'[i] # NoResponse
        /\ responses'[i].status_code \in {200, 201}
        /\ responses'[i].json_ok

\* the step got a 200 answer to its status request
CheckAnswered ==
    \E i \in 1..Len(requests') :
        /\ FlowOf(requests'[i], job_id') = "tab2"
        /\ responses'[i] # NoResponse
        /\ responses'[i].status_code = 200

\* C4: outside login and logout, active_jobs and the archive change only in
\* a step whose response was successful: records are added only on a 200/201
\* submit answer, a record's field changes only on a 200 status answer;
\* validation failures, transport failures and other codes change nothing.
C4_HistoryChangesOnlyOnSuccess ==
    [][last_click' \notin {"authenticate", "logout"} =>
          /\ HistoryGrows => SubmitAnswered
          /\ RecordChanges => CheckAnswered]_vars

\* a status check for a job of the history was answered 404
C4_Witness ==
    /\ last_click = "check"
    /\ Len(responses) = 1
    /\ responses[1] # NoResponse
    /\ responses[1].status_code = 404
    /\ job_history # <<>>
    /\ heap[job_history[1]].id = job_id

\* the step saves a job: the submit flow got its 200/201 and allocated a dict
SaveStep ==
    Len(heap') = Len(heap) + 1

\* a is b with its last Len(b) - Len(a) elements removed
IsPrefix(a, b) ==
    Len(a) <= Len(b) /\ a = SubSeq(b, 1, Len(a))

\* the current user's bucket after the step
BucketAfter ==
    IF current_user_hash' \in DOMAIN global_history'
    THEN global_history'[current_user_hash'] ELSE <<>>

\* C5: every record_job leaves the new job at index 0 of active_jobs and of
\* the current user's bucket, with the earlier records in their order behind
\* it; it removes a record from active_jobs only when active_jobs already
\* held 20 records, and then exactly one, the oldest.
C5_RecordJobFrontAndEvictsOne ==
    [][SaveStep =>
          /\ job_history' # <<>> /\ job_history'[1] = Len(heap')
          /\ BucketAfter # <<>> /\ BucketAfter[1] = Len(heap')
          /\ IsPrefix(Tail(job_history'), job_history)
          /\ IsPrefix(Tail(BucketAfter), Bucket)
          /\ Len(Tail(job_history')) < Len(job_history) =>
                /\ Len(job_history) = 20
                /\ Len(Tail(job_history')) = 19]_vars

\* r is the first reference of refs whose job has this id
IsFirstMatch(refs, r, id) ==
    \E i \in 1..Len(refs) :
        /\ refs[i] = r
        /\ heap[r].id = id
        /\ \A k \in 1..(i - 1) : heap[refs[k]].id # id

\* the step is a click on Check Status that was answered 200 with a status
StatusUpdateStep ==
    /\ last_click' = "check"
    /\ Len(responses') = 1
    /\ responses'[1] # NoResponse
    /\ responses'[1].status_code = 200
    /\ responses'[1].json_ok

\* C6: a successful status check adds, removes and reorders nothing; it
\* changes nothing at all when the id matches no record of active_jobs and
\* none of the current user's bucket; when the id matches, the first
\* matching record of each structure gets the reported status and nothing
\* else changes.
C6_UpdateStatusFrame ==
    [][StatusUpdateStep =>
          /\ job_history' = job_history
          /\ global_history' = global_history
          /\ Len(heap') = Len(heap)
          /\ \A r \in 1..Len(heap) :
                IF IsFirstMatch(job_history, r, job_id) \/ IsFirstMatch(Bucket, r, job_id)
                THEN heap'[r] = [heap[r] EXCEPT !.status = responses'[1].json.status]
                ELSE heap'[r] = heap[r]]_vars

\* a status check has updated the first of two jobs with the same id and
\* left the second as it was
C6_Witness ==
    /\ last_click = "check"
    /\ Len(job_history) = 2
    /\ heap[job_history[1]].id = job_id
    /\ heap[job_history[2]].id = job_id
    /\ heap[job_history[1]].status = "completed"
    /\ heap[job_history[2]].status = "processing"

\* C7: while a user is logged in, active_jobs holds no record that was
\* recorded under a token with a different derived user id: every record of
\* it was recorded under a token with the user's own id and is in the
\* user's own bucket.
C7_NoForeignJobs ==
    api_token # None =>
        \A i \in 1..Len(job_history) :
            /\ get_user_hash(recorded_by[job_history[i]]) = get_user_hash(api_token)
            /\ \E k \in 1..Len(Bucket) : Bucket[k] = job_history[i]

\* tokB has logged in after tokA recorded a job and logged out, and sees
\* its own job only
C7_Witness ==
    /\ last_click = "authenticate"
    /\ api_token = "tokB"
    /\ \E r \in 1..Len(heap) : recorded_by[r] = "tokA"
    /\ Len(job_history) = 1
    /\ recorded_by[job_history[1]] = "tokB"

\* the positions, among the requests of the step, of its status check
CheckRequestsAfter ==
    {i \in 1..Len(requests') : FlowOf(requests'[i], job_id') = "tab2"}

\* the status check of the step was answered 200 with status "processing"
AnsweredProcessing ==
    \E i \in CheckRequestsAfter :
        /\ responses'[i] # NoResponse
        /\ responses'[i].status_code = 200
        /\ responses'[i].json_ok
        /\ responses'[i].json.status = "processing"

\* C8: with auto-refresh on and a job id entered, a status check is followed
\* by a pause and a re-issue exactly when it was answered 200 with the status
\* "processing"; any other status string, any other code and a transport
\* failure schedule nothing; nothing is scheduled without such a check; and
\* the rerun issues the same request again.
C8_AutoRefreshIffProcessing ==
    [][/\ (auto_refresh' /\ job_id' # "" /\ CheckRequestsAfter # {}) =>
              (rerun_pending' <=> AnsweredProcessing)
       /\ rerun_pending' => (auto_refresh' /\ job_id' # "" /\ CheckRequestsAfter # {})
       /\ last_click' = "rerun" =>
              /\ rerun_pending
              /\ Len(requests') = 1
              /\ \E i \in 1..Len(requests) :
                    /\ FlowOf(requests[i], job_id) = "tab2"
                    /\ requests'[1] = requests[i]]_vars

\* a re-issued check was answered "processing" again and the next one is scheduled
C8_Witness ==
    /\ last_click = "rerun"
    /\ rerun_pending
    /\ auto_refresh
    /\ Len(responses) = 1
    /\ responses[1].json.status = "processing"

\* the tokens that are empty or whitespace only
BlankTokens ==
    {"", " "}

\* C9: authenticate with an empty or blank token is rejected with a
\* validation error and leaves auth_token, user_id, active_jobs and the
\* archive unchanged; with any other token it sets auth_token to the token,
\* user_id to the token's hash and loads that user's bucket into active_jobs.
C9_AuthenticateValidates ==
    [][last_click' = "authenticate" =>
          IF last_input'.api_key_input \in BlankTokens
          THEN /\ \E k \in 1..Len(messages') : messages'[k].kind = "invalid_token"
               /\ UNCHANGED <<api_token, current_user_hash, job_history,
                              global_history, heap>>
          ELSE /\ api_token' = last_input'.api_key_input
               /\ current_user_hash' = get_user_hash(api_token')
               /\ job_history' = BucketAfter
               /\ global_history' = global_history
               /\ heap' = heap]_vars

\* the parameter names of the export request, in the order of the claim
ExportParamNames ==
    <<"remove_timestamps", "remove_word_level_timestamps", "remove_speaker_labels",
      "remove_insights", "remove_keywords">>

RECURSIVE ExpectedQuery(_, _, _)
\* name=1 for each set toggle from the i-th on, "?" before the first one
\* written and "&" before the others
ExpectedQuery(toggles, i, written) ==
    IF i > 5 THEN ""
    ELSE IF toggles[ToggleNames[i]]
         THEN (IF written THEN "&" ELSE "?") \o ExportParamNames[i] \o "=1"
                  \o ExpectedQuery(toggles, i + 1, TRUE)
         ELSE ExpectedQuery(toggles, i + 1, written)

\* C10: for every combination of the five toggles the query string of the
\* export request is name=1 for exactly the set toggles, in the fixed order,
\* joined by "&" and prefixed by "?", and empty when no toggle is set.
C10_ExportQueryString ==
    \A i \in 1..Len(requests) :
        FlowOf(requests[i], job_id) = "tab3" =>
            /\ last_click = "download"
            /\ requests[i].endpoint =
                  "/transcript/export/" \o last_input.export.download_job_id \o "/"
                      \o last_input.export.format_type
                      \o ExpectedQuery(last_input.export.toggles, 1, FALSE)

\* the export of the spec's example: remove_timestamps and remove_keywords
C10_Witness ==
    /\ last_click = "download"
    /\ Len(requests) = 1
    /\ requests[1].endpoint =
          "/transcript/export/j1/pdf?remove_timestamps=1&remove_keywords=1"

\* the tab whose flow a click on a button starts
TabOfClick(click) ==
    IF click = "submit" THEN "tab1"
    ELSE IF click = "check" THEN "tab2"
    ELSE "tab3"

\* C11: one click on Submit, Check Status or Download issues at most one
\* network request, and the request issued is the one of the clicked action,
\* whatever the auto-refresh checkbox and the job id fields hold.
C11_OneRequestPerAction ==
    last_click \in {"submit", "check", "download"} =>
        /\ Len(requests) <= 1
        /\ \A i \in 1..Len(requests) :
              FlowOf(requests[i], job_id) = TabOfClick(last_click)

\* the ids of the jobs recorded so far
RecordedIds ==
    {heap[r].id : r \in 1..Len(heap)}

\* C12: while a user is logged in, active_jobs (job_history) is a prefix of
\* the user's archive bucket: the same records in the same order with the
\* same field values, both empty when the user has no bucket; and a job id
\* found in both is found with the same status in both.
C12_SessionIsPrefixOfBucket ==
    api_token # None =>
        /\ IsPrefix(job_history, Bucket)
        /\ \A i \in 1..Len(job_history) :
              i <= Len(Bucket) /\ heap[job_history[i]] = heap[Bucket[i]]
        /\ current_user_hash \notin DOMAIN global_history => job_history = <<>>
        /\ \A id \in RecordedIds :
              LET i == FirstMatch(heap, job_history, id)
                  k == FirstMatch(heap, Bucket, id)
              IN  (i # 0 /\ k # 0) =>
                      heap[job_history[i]].status = heap[Bucket[k]].status

\* the bucket holds one record more than the 20 of active_jobs, and a status
\* check has just set that oldest record to "completed"
C12_Witness ==
    /\ api_token # None
    /\ last_click = "check"
    /\ Len(job_history) = 20
    /\ Len(Bucket) = 21
    /\ heap[Bucket[21]].id = job_id
    /\ heap[Bucket[21]].status = "completed"

\* the token changes only by a logout, which clears it, and by an accepted
\* click on Authenticate, which sets it to the content of the token field
TokenSetByAuthenticate ==
    api_token' # api_token =>
        \/ last_click' = "logout" /\ api_token' = None
        \/ /\ last_click' = "authenticate"
           /\ api_token = None
           /\ api_token' = last_input'.api_key_input

\* C13: no submit, status or export request is issued while auth_token is
\* absent, before the first authenticate or after a logout, and every request
\* issued carries "Authorization: Bearer <t>" with t the token set by the
\* most recent successful authenticate.
C13_RequestsCarryToken ==
    [][/\ TokenSetByAuthenticate
       /\ requests' # <<>> =>
             /\ api_token # None
             /\ api_token' = api_token
             /\ \A i \in 1..Len(requests') :
                   requests'[i].authorization = "Bearer " \o api_token]_vars

\* after a session under another token and a logout, tokA has logged in
\* with auto-refresh ticked and a click has issued two requests
C13_Witness ==
    /\ api_token = "tokA"
    /\ Len(heap) = 1
    /\ recorded_by[1] = " "
    /\ auto_refresh
    /\ Len(requests) = 2
    /\ \A i \in 1..2 : requests[i].authorization = "Bearer tokA"

====
